---------------------------- MODULE Spec2Model ----------------------------
(***************************************************************************)
(* Model of the slide parser of latex2video (src/src/latex_parser.py).     *)
(*                                                                         *)
(* Text is a sequence of tokens.  A token is one lexical unit of the raw   *)
(* LaTeX text: a command name, a brace, a run of letters, a blank or a     *)
(* line break.  Every text function of the parser is modelled by what it   *)
(* does to such a sequence, step by step as the code does it.              *)
(***************************************************************************)
EXTENDS Integers, Sequences, FiniteSets, TLC

\* ------------------------------------------------------------------------
\* Tokens
\* ------------------------------------------------------------------------

\* "\frametitle{" : the literal the code searches for with str.find
FT == "\\frametitle{"

\* the same text split as the regular expressions see it: a command name
\* followed by an opening brace
FTCmd == "\\frametitle"

\* runs of letters (they match [a-zA-Z]+ when they follow a command name)
Letters == {"A", "B", "T", "x", "Outline", "outline"}

\* command names that are not in the math_commands whitelist
NonMathCommands == {"\\titlepage", "\\tableofcontents", "\\pause", FTCmd}

\* command names of the math_commands whitelist (lines 240-245)
MathCommands == {"\\alpha", "\\beta"}

\* tokens that start with a word character of the regular expressions
\* ([A-Za-z0-9_]): after a command name they leave no word boundary \b
WordChars == Letters \cup {"_", "1"}

\* blanks removed by str.strip()
Blank == {" ", "\n"}

\* a bracketed option group such as [t]
OptGroup == "[t]"

\* tokens that contain an opening brace character
Opens(t) == t \in {"{", FT}

\* ------------------------------------------------------------------------
\* Sentinels and fixed texts of the parser
\* ------------------------------------------------------------------------

UntitledFrame == <<"Untitled Frame">>

UntitledSlide == <<"Untitled Slide">>

TitlePage == <<"Title Page">>

OutlineTitle == <<"Outline">>

DefaultOutline == <<"This slide shows the outline of the presentation.">>

DefaultDocTitle == <<"Presentation Title">>

\* ------------------------------------------------------------------------
\* Sequence helpers (Python str primitives on token sequences)
\* ------------------------------------------------------------------------

\* s[a:b] with 1-based inclusive bounds, empty when a > b
Slice(s, a, b) == IF a > b THEN <<>> ELSE SubSeq(s, a, b)

\* str.find: least index >= from holding a token of set ts, 0 when absent
RECURSIVE FindFrom(_, _, _)
FindFrom(s, ts, from) ==
    IF from > Len(s) THEN 0
    ELSE IF s[from] \in ts THEN from
    ELSE FindFrom(s, ts, from + 1)

Contains(s, t) == FindFrom(s, {t}, 1) # 0

RECURSIVE LStrip(_)
LStrip(s) ==
    IF s = <<>> THEN <<>>
    ELSE IF Head(s) \in Blank THEN LStrip(Tail(s))
    ELSE s

RECURSIVE RStrip(_)
RStrip(s) ==
    IF s = <<>> THEN <<>>
    ELSE IF s[Len(s)] \in Blank THEN RStrip(Slice(s, 1, Len(s) - 1))
    ELSE s

\* str.strip()
Strip(s) == LStrip(RStrip(s))

\* str.split('\n'): the list of lines (always at least one)
RECURSIVE SplitLines(_)
SplitLines(s) ==
    LET nl == FindFrom(s, {"\n"}, 1)
    IN  IF nl = 0 THEN <<s>>
        ELSE <<Slice(s, 1, nl - 1)>> \o SplitLines(Slice(s, nl + 1, Len(s)))

\* '\n'.join(lines)
RECURSIVE JoinLines(_)
JoinLines(ls) ==
    IF ls = <<>> THEN <<>>
    ELSE IF Len(ls) = 1 THEN ls[1]
    ELSE ls[1] \o <<"\n">> \o JoinLines(Tail(ls))

\* [line.strip() for line in ...] followed by filter(None, lines)
RECURSIVE StripAndDropEmpty(_)
StripAndDropEmpty(ls) ==
    IF ls = <<>> THEN <<>>
    ELSE LET l == Strip(Head(ls))
         IN  IF l = <<>> THEN StripAndDropEmpty(Tail(ls))
             ELSE <<l>> \o StripAndDropEmpty(Tail(ls))

\* ------------------------------------------------------------------------
\* Balanced-brace scan shared by extract_frame_title and
\* clean_latex_content: starts at position p with brace_count cnt and
\* returns <<position after the scan, final brace_count>>
\* ------------------------------------------------------------------------

RECURSIVE BraceScan(_, _, _)
BraceScan(s, p, cnt) ==
    IF p > Len(s) \/ cnt <= 0 THEN <<p, cnt>>
    ELSE IF Opens(s[p]) THEN BraceScan(s, p + 1, cnt + 1)
    ELSE IF s[p] = "}" THEN BraceScan(s, p + 1, cnt - 1)
    ELSE BraceScan(s, p + 1, cnt)

\* ------------------------------------------------------------------------
\* clean_latex_content
\*
\* The steps that act on the modelled tokens are translated one by one.
\* The remaining steps of the function (comments, list and math
\* environments, math delimiters, \includegraphics, \textbf and friends)
\* rewrite only texts that hold a '%', an \item, a '$', ... ; no modelled
\* text holds one of these.
\* ------------------------------------------------------------------------

\* lines 91-113: remove every \frametitle{...}; when the braces do not
\* balance only the literal "\frametitle{" is removed
RECURSIVE RemoveFrameTitles(_)
RemoveFrameTitles(content) ==
    LET title_start == FindFrom(content, {FT}, 1)
        scan == BraceScan(content, title_start + 1, 1)
    IN  IF title_start = 0 THEN content
        ELSE IF scan[2] = 0
             THEN RemoveFrameTitles(Slice(content, 1, title_start - 1)
                                    \o Slice(content, scan[1], Len(content)))
             ELSE RemoveFrameTitles(Slice(content, 1, title_start - 1)
                                    \o Slice(content, title_start + 1, Len(content)))

\* the [a-zA-Z]+ of the command pattern also takes the letters that follow
\* the command name without a separator
RECURSIVE SkipLetters(_)
SkipLetters(s) ==
    IF s # <<>> /\ Head(s) \in Letters THEN SkipLetters(Tail(s)) ELSE s

\* (\{.*?\}|\[.*?\])* : argument groups directly after the command, each
\* brace group running to the first closing brace
RECURSIVE SkipGroups(_)
SkipGroups(s) ==
    IF s = <<>> THEN s
    ELSE IF Head(s) = OptGroup THEN SkipGroups(Tail(s))
    ELSE IF Head(s) = "{" /\ FindFrom(s, {"}"}, 2) # 0
         THEN SkipGroups(Slice(s, FindFrom(s, {"}"}, 2) + 1, Len(s)))
    ELSE s

\* re.sub(pattern, '', content) for a command pattern matching cmds
RECURSIVE StripCommands(_, _)
StripCommands(s, cmds) ==
    IF s = <<>> THEN <<>>
    ELSE IF Head(s) \in cmds
         THEN StripCommands(SkipGroups(SkipLetters(Tail(s))), cmds)
    ELSE <<Head(s)>> \o StripCommands(Tail(s), cmds)

\* line 248: the pattern passes over a whitelisted name only when a word
\* boundary follows it, (?!(?:frac|...|omega)\b); a whitelisted name that
\* is followed by a letter, a digit or an underscore is matched like any
\* other command
MatchesNonMathPattern(s) ==
    \/ Head(s) \in NonMathCommands
    \/ Head(s) \in MathCommands /\ Len(s) > 1 /\ s[2] \in WordChars

\* line 267: re.sub(non_math_command_pattern, '', content)
RECURSIVE StripNonMathCommands(_)
StripNonMathCommands(s) ==
    IF s = <<>> THEN <<>>
    ELSE IF MatchesNonMathPattern(s)
         THEN StripNonMathCommands(SkipGroups(SkipLetters(Tail(s))))
    ELSE <<Head(s)>> \o StripNonMathCommands(Tail(s))

\* lines 270-273 and 282-285: strip every line, drop the empty ones
CleanLines(content) == JoinLines(StripAndDropEmpty(SplitLines(Strip(content))))

\* "\frametitle{" as the regular expressions read it
RECURSIVE ExpandFT(_)
ExpandFT(s) ==
    IF s = <<>> THEN <<>>
    ELSE IF Head(s) = FT THEN <<FTCmd, "{">> \o ExpandFT(Tail(s))
    ELSE <<Head(s)>> \o ExpandFT(Tail(s))

\* re.sub(r'[{}\\]', '', text)
RECURSIVE RemoveBraces(_)
RemoveBraces(s) ==
    IF s = <<>> THEN <<>>
    ELSE IF Head(s) \in {"{", "}"} THEN RemoveBraces(Tail(s))
    ELSE <<Head(s)>> \o RemoveBraces(Tail(s))

\* lines 276-285: the second pass, on the original text
AggressiveClean(original_content) ==
    CleanLines(RemoveBraces(StripCommands(ExpandFT(original_content),
                                          NonMathCommands \cup MathCommands)))

clean_latex_content(content) ==
    LET cleaned_content ==
            CleanLines(StripNonMathCommands(RemoveFrameTitles(content)))
    IN  IF Strip(cleaned_content) = <<>> THEN AggressiveClean(content)
        ELSE cleaned_content

\* ------------------------------------------------------------------------
\* extract_frame_title
\* ------------------------------------------------------------------------

BulletMark == "-"

ContinuationMark == "Continuation of"

\* lines 71-77: the first stripped line that is not empty, not a bullet
\* and not a continuation note
RECURSIVE FirstTitleLine(_)
FirstTitleLine(lines) ==
    IF lines = <<>> THEN UntitledFrame
    ELSE LET line == Strip(Head(lines))
         IN  IF line # <<>> /\ Head(line) \notin {BulletMark, ContinuationMark}
             THEN line
             ELSE FirstTitleLine(Tail(lines))

\* lines 42-59: the balanced-brace tier
BalancedTitle(frame_content) ==
    LET title_start == FindFrom(frame_content, {FT}, 1)
        scan == BraceScan(frame_content, title_start + 1, 1)
    IN  IF title_start # 0 /\ scan[2] = 0
        THEN Strip(Slice(frame_content, title_start + 1, scan[1] - 2))
        ELSE UntitledFrame

\* lines 62-65: re.search(r'\\frametitle\{(.*?)\}', ...)
RegexTitle(frame_content) ==
    LET title_start == FindFrom(frame_content, {FT}, 1)
        close == FindFrom(frame_content, {"}"}, title_start + 1)
    IN  IF title_start # 0 /\ close # 0
        THEN Strip(Slice(frame_content, title_start + 1, close - 1))
        ELSE UntitledFrame

\* extract_frame_title with the last tier reading the span as it is, not
\* its cleaned content
extract_frame_title_RawLines(frame_content) ==
    LET t1 == BalancedTitle(frame_content)
        t2 == IF t1 = UntitledFrame THEN RegexTitle(frame_content) ELSE t1
    IN  IF t2 = UntitledFrame
        THEN FirstTitleLine(SplitLines(Strip(frame_content)))
        ELSE t2

extract_frame_title(frame_content) ==
    LET t1 == BalancedTitle(frame_content)
        t2 == IF t1 = UntitledFrame THEN RegexTitle(frame_content) ELSE t1
    IN  IF t2 = UntitledFrame
        THEN FirstTitleLine(SplitLines(Strip(clean_latex_content(frame_content))))
        ELSE t2

\* ------------------------------------------------------------------------
\* Bounds
\* ------------------------------------------------------------------------

\* constructs (frames, sections) in a source text
MaxFrames == 2

\* largest page count the page-count probe reports
MaxPages == 6

\* pages of a rendered artifact given to parse_pdf_file
MaxPdfPages == 3

\* ------------------------------------------------------------------------
\* Source texts: a preamble and a sequence of constructs.  A construct is
\*   env     \begin{frame} text \end{frame}
\*   cmd     \frame{ text }
\*   section \section{ text }
\* ------------------------------------------------------------------------

EnvTexts ==
    { <<FT, "A", "}", "\n", "x">>,          \* title and body
      <<FT, " ", "}", "x">>,                \* title marker with a blank body
      <<"\\titlepage">>,                    \* the title-page frame
      <<"\\tableofcontents">>,              \* the outline frame
      <<"x">>,                              \* no title marker
      <<"\\pause">>,                        \* nothing left after cleaning
      <<OptGroup, FT, "B", "}", "x">>,      \* \begin{frame}[t]
      <<"{", "T", "}", "x">>,               \* \begin{frame}{T}
      <<FT, "outline", "}", "x">>,          \* an outline title in lower case
      <<"\\titlepage", " ", "Outline">> }   \* title page with an outline keyword

CmdTexts ==
    { <<FT, "A", "}", " ", "x">>,                   \* braces nested once
      <<FT, "A", "{", "B", "}", "}", "x">> }        \* braces nested twice

Constructs ==
    [kind : {"env"}, text : EnvTexts] \cup [kind : {"cmd"}, text : CmdTexts]
        \cup [kind : {"section"}, text : {<<"A">>}]

RECURSIVE SeqsUpTo(_, _)
SeqsUpTo(S, n) ==
    IF n = 0 THEN {<<>>}
    ELSE LET shorter == SeqsUpTo(S, n - 1)
         IN  shorter \cup {Append(q, e) : q \in {r \in shorter : Len(r) = n - 1}, e \in S}

\* \title{T} and \author{B} are both present or both absent
Preambles == {"none", "title_author"}

Sources == [preamble : Preambles, body : SeqsUpTo(Constructs, MaxFrames)]

\* ------------------------------------------------------------------------
\* Frame detection, lines 430-476
\* ------------------------------------------------------------------------

\* Pattern 1 (433): every \begin{frame}...\end{frame}, options and inline
\* title included in the captured text
RECURSIVE Pattern1(_)
Pattern1(body) ==
    IF body = <<>> THEN <<>>
    ELSE (IF Head(body).kind = "env" THEN <<Head(body).text>> ELSE <<>>)
         \o Pattern1(Tail(body))

\* Pattern 2 (439): \begin{frame}[options] ; the text after the options
RECURSIVE Pattern2(_)
Pattern2(body) ==
    IF body = <<>> THEN <<>>
    ELSE LET c == Head(body)
         IN  (IF c.kind = "env" /\ c.text # <<>> /\ Head(c.text) = OptGroup
              THEN <<Tail(c.text)>> ELSE <<>>)
             \o Pattern2(Tail(body))

\* the body expression of pattern 3, [^{}]*(?:\{[^{}]*\}[^{}]*)* followed by
\* a closing brace: the position of that brace in s, 0 when the expression
\* does not match
RECURSIVE Pattern3Close(_, _, _)
Pattern3Close(s, p, depth) ==
    IF p > Len(s) THEN 0
    ELSE IF Opens(s[p]) THEN (IF depth = 1 THEN 0 ELSE Pattern3Close(s, p + 1, 1))
    ELSE IF s[p] = "}" THEN (IF depth = 1 THEN Pattern3Close(s, p + 1, 0) ELSE p)
    ELSE Pattern3Close(s, p + 1, depth)

\* Pattern 3 (447): \frame{...}
RECURSIVE Pattern3(_)
Pattern3(body) ==
    IF body = <<>> THEN <<>>
    ELSE LET c == Head(body)
             raw == c.text \o <<"}">>
             close == Pattern3Close(raw, 1, 0)
         IN  (IF c.kind = "cmd" /\ close # 0
              THEN <<Slice(raw, 1, close - 1)>> ELSE <<>>)
             \o Pattern3(Tail(body))

\* Pattern 4 (453): \begin{frame}{title} ; the text after the title group
RECURSIVE Pattern4(_)
Pattern4(body) ==
    IF body = <<>> THEN <<>>
    ELSE LET c == Head(body)
             close == FindFrom(c.text, {"}"}, 2)
         IN  (IF c.kind = "env" /\ c.text # <<>> /\ Head(c.text) = "{" /\ close # 0
              THEN <<Slice(c.text, close + 1, Len(c.text))>> ELSE <<>>)
             \o Pattern4(Tail(body))

\* lines 430-456: the matches of the four patterns, appended in this order
StandardPatterns(body) ==
    Pattern1(body) \o Pattern2(body) \o Pattern3(body) \o Pattern4(body)

\* lines 465-475: the i-th \begin{frame} paired with the i-th \end{frame}
PositionBased(body) == Pattern1(body)

\* the constructs of body, by index, that a pattern matches: re.findall
\* gives the matches of one pattern in the order of the text
Matched1(body) ==
    SelectSeq([k \in 1 .. Len(body) |-> k], LAMBDA k : Pattern1(<<body[k]>>) # <<>>)

Matched2(body) ==
    SelectSeq([k \in 1 .. Len(body) |-> k], LAMBDA k : Pattern2(<<body[k]>>) # <<>>)

Matched3(body) ==
    SelectSeq([k \in 1 .. Len(body) |-> k], LAMBDA k : Pattern3(<<body[k]>>) # <<>>)

Matched4(body) ==
    SelectSeq([k \in 1 .. Len(body) |-> k], LAMBDA k : Pattern4(<<body[k]>>) # <<>>)

\* lines 430-476: for each entry of frames, the construct it was taken from
FrameOrigins(body) ==
    IF StandardPatterns(body) # <<>>
    THEN Matched1(body) \o Matched2(body) \o Matched3(body) \o Matched4(body)
    ELSE Matched1(body)

\* lines 430-476
FindFrames(body) ==
    IF StandardPatterns(body) # <<>> THEN StandardPatterns(body)
    ELSE PositionBased(body)

\* ------------------------------------------------------------------------
\* Slides
\* ------------------------------------------------------------------------

\* class Slide: frame_number, title, content (there is no other field)
Slide(frame_number, title, content) ==
    [frame_number |-> frame_number, title |-> title, content |-> content]

\* lines 489-492: \title{...} and \author{...} of the preamble
doc_title(preamble) == IF preamble = "title_author" THEN <<"T">> ELSE DefaultDocTitle

doc_author(preamble) == IF preamble = "title_author" THEN <<"B">> ELSE <<>>

\* f"Title: {title}\nAuthor: {author}"
TitleContent(title, author) == <<"Title: ">> \o title \o <<"\n", "Author: ">> \o author

\* lines 542-546
TitleSlide(preamble) ==
    Slide(1, TitlePage, TitleContent(doc_title(preamble), doc_author(preamble)))

\* line 551: the texts that make a frame the outline frame
OutlineMarks == {"\\tableofcontents", "Outline", "Sumário"}

IsOutlineFrame(frame_content) == \E t \in OutlineMarks : Contains(frame_content, t)

\* lines 548-553: index of the first outline frame, 0 when there is none
RECURSIVE OutlineIndex(_, _)
OutlineIndex(fs, i) ==
    IF i > Len(fs) THEN 0
    ELSE IF IsOutlineFrame(fs[i]) THEN i
    ELSE OutlineIndex(fs, i + 1)

\* lines 556-573
OutlineSlide(fs) ==
    LET k == OutlineIndex(fs, 1)
        outline_content == IF k = 0 THEN <<>> ELSE clean_latex_content(fs[k])
    IN  IF k = 0 \/ Strip(outline_content) = <<>>
        THEN Slide(2, OutlineTitle, DefaultOutline)
        ELSE Slide(2, OutlineTitle, outline_content)

\* line 576: frames.pop(outline_slide_index)
PopOutline(fs) ==
    LET k == OutlineIndex(fs, 1)
    IN  IF k = 0 THEN fs ELSE Slice(fs, 1, k - 1) \o Slice(fs, k + 1, Len(fs))

\* lines 591-609: the slide made from one content frame
ContentSlide(frame_number, frame_content) ==
    LET title == extract_frame_title(frame_content)
        cleaned_content == clean_latex_content(frame_content)
    IN  Slide(frame_number, title,
              IF Strip(cleaned_content) = <<>>
              THEN <<"This slide covers ">> \o title \o <<".">>
              ELSE cleaned_content)

\* line 582
IsTitlePageFrame(frame_content) == Contains(frame_content, "\\titlepage")

\* line 586 with start_frame_number = 3; i counts from 1 here
FrameNumber(i) == (i - 1) + 3

\* lines 580-609: the loop over the frames left after the outline
RECURSIVE ContentSlides(_, _, _)
ContentSlides(fs, i, page_count) ==
    IF i > Len(fs) THEN <<>>
    ELSE IF IsTitlePageFrame(fs[i]) THEN ContentSlides(fs, i + 1, page_count)
    ELSE IF FrameNumber(i) > page_count THEN <<>>
    ELSE <<ContentSlide(FrameNumber(i), fs[i])>> \o ContentSlides(fs, i + 1, page_count)

\* lines 539-612
BuildSlides(preamble, fs, page_count) ==
    <<TitleSlide(preamble), OutlineSlide(fs)>>
        \o ContentSlides(PopOutline(fs), 1, page_count)

\* ------------------------------------------------------------------------
\* Page count, lines 494-536
\* ------------------------------------------------------------------------

\* pdfinfo: the call fails, prints no "Pages:" line, or prints a count
ProbeResults ==
    [status : {"fail", "noparse"}, pages : {0}]
        \cup [status : {"pages"}, pages : 0 .. MaxPages]

\* ProbedCandidate with the output location tested first
ProbedCandidate_OutputFirst(source_exists, output_exists) ==
    IF output_exists THEN "output"
    ELSE IF source_exists THEN "source"
    ELSE "none"

\* lines 506-525: which candidate is given to pdfinfo
ProbedCandidate(source_exists, output_exists) ==
    IF source_exists THEN "source"
    ELSE IF output_exists THEN "output"
    ELSE "none"

\* lines 503-525: the count read from the artifact, 0 when there is none
ProbedCount(source_exists, output_exists, probe) ==
    IF ProbedCandidate(source_exists, output_exists) = "none" THEN 0
    ELSE IF probe.status \in {"fail", "noparse"} THEN 0
    ELSE probe.pages

\* ResolvedCount with the estimate counting the title slide only
ResolvedCount_TitleOnly(source_exists, output_exists, probe, fs) ==
    IF ProbedCount(source_exists, output_exists, probe) = 0
    THEN Len(fs) + 1
    ELSE ProbedCount(source_exists, output_exists, probe)

\* lines 528-536
ResolvedCount(source_exists, output_exists, probe, fs) ==
    IF ProbedCount(source_exists, output_exists, probe) = 0
    THEN Len(fs) + 2
    ELSE ProbedCount(source_exists, output_exists, probe)

\* ------------------------------------------------------------------------
\* parse_pdf_file, lines 291-402
\*
\* The text of a page is a token sequence whose tokens are whole lines
\* separated by "\n"; pdf_text.split('\f') is the sequence of page texts.
\* ------------------------------------------------------------------------

PageTexts ==
    { <<>>,                              \* a page without text
      <<"A">>,                           \* a single line
      <<"A", "\n", "x">>,                \* a heading and a body line
      <<BulletMark, "x", "\n", "B">>,    \* a bullet, then a plain line
      <<BulletMark, "x">>,               \* bullets only
      <<"Outline", "\n", "A">> }         \* an outline page

\* what pdftotext gives, already split at the form feeds
PdfTexts == SeqsUpTo(PageTexts, MaxPdfPages) \ {<<>>}

\* line 340
outline_keywords == {"outline", "contents", "agenda", "sumário", "índice", "conteúdo"}

\* str.lower() on the tokens that change under it
Lower(t) == IF t = "Outline" THEN "outline" ELSE t

\* lines 339-344
IsOutlinePage(text) ==
    \E k \in 1 .. Len(text) : Lower(text[k]) \in outline_keywords

\* [line for line in lines if line.strip()]
RECURSIVE NonBlankLines(_)
NonBlankLines(ls) ==
    IF ls = <<>> THEN <<>>
    ELSE (IF Strip(Head(ls)) # <<>> THEN <<Head(ls)>> ELSE <<>>)
         \o NonBlankLines(Tail(ls))

\* lines 320-332
PdfTitleSlide(pages) ==
    LET title_lines == NonBlankLines(SplitLines(Strip(pages[1])))
        title == IF title_lines # <<>> THEN title_lines[1] ELSE DefaultDocTitle
        author == IF Len(title_lines) > 1 THEN title_lines[2] ELSE <<>>
    IN  Slide(1, TitlePage, TitleContent(title, author))

\* lines 335-368: the second slide
PdfOutlineSlide(pages) ==
    IF Len(pages) > 1 /\ IsOutlinePage(Strip(pages[2]))
    THEN Slide(2, OutlineTitle, Strip(pages[2]))
    ELSE Slide(2, OutlineTitle, DefaultOutline)

\* lines 352, 360, 368: start_idx, as a 1-based index into pages
PdfStartIndex(pages) ==
    IF Len(pages) > 1 /\ IsOutlinePage(Strip(pages[2])) THEN 3 ELSE 2

\* lines 382-387: index of the first of the first three lines that is not
\* blank and not a bullet, 0 when there is none
RECURSIVE PdfTitleLine(_, _)
PdfTitleLine(lines, j) ==
    IF j > Len(lines) \/ j > 3 THEN 0
    ELSE IF Strip(lines[j]) # <<>> /\ Head(Strip(lines[j])) # BulletMark THEN j
    ELSE PdfTitleLine(lines, j + 1)

\* lines 377-394; i is the 1-based index of the page, which is frame_number
PdfContentSlide(i, page_text) ==
    LET lines == SplitLines(page_text)
        j == PdfTitleLine(lines, 1)
    IN  IF j = 0 THEN Slide(i, UntitledSlide, page_text)
        ELSE Slide(i, Strip(lines[j]), JoinLines(Slice(lines, j + 1, Len(lines))))

\* lines 371-394
RECURSIVE PdfContentSlides(_, _)
PdfContentSlides(pages, i) ==
    IF i > Len(pages) THEN <<>>
    ELSE IF Strip(pages[i]) = <<>> THEN PdfContentSlides(pages, i + 1)
    ELSE <<PdfContentSlide(i, Strip(pages[i]))>> \o PdfContentSlides(pages, i + 1)

\* lines 314-402
PdfSlides(pages) ==
    <<PdfTitleSlide(pages), PdfOutlineSlide(pages)>>
        \o PdfContentSlides(pages, PdfStartIndex(pages))

\* lines 296-311: nothing is parsed when pdftotext fails or prints nothing,
\* or when pdfinfo fails
ParsePdfResult(pdftotext_ok, pdf_text, pdfinfo_ok) ==
    IF ~pdftotext_ok THEN <<>>
    ELSE IF pdf_text = <<<<>>>> THEN <<>>
    ELSE IF ~pdfinfo_ok THEN <<>>
    ELSE PdfSlides(pdf_text)

\* ------------------------------------------------------------------------
\* parse_latex_file as a state machine
\* ------------------------------------------------------------------------

VARIABLES
    pc,              \* position in parse_latex_file
    file_path,       \* "tex" or "pdf": the extension of the argument
    read_result,     \* outcome of open/read: "none", "ok", "missing", "error"
    sibling_pdf,     \* os.path.exists(pdf_path), line 420
    latex_content,   \* the source text read
    frames,          \* the local list frames
    pdf_page_count,  \* the local pdf_page_count: <<>> while unassigned, else <<n>>
    candidates,      \* which candidate artifacts exist, which one pdfinfo was run on
    probe_result,    \* what pdfinfo gave
    pdf_input,       \* what pdftotext and pdfinfo gave to parse_pdf_file
    parsed_slides,   \* the returned list
    text_pc,         \* position of a direct call of a text function
    text_input,      \* the text given to the text function
    text_cleaned,    \* clean_latex_content(text_input)
    text_recleaned,  \* clean_latex_content(text_cleaned)
    frame_title,     \* extract_frame_title(text_input)
    calls,           \* the locals of two calls of parse_latex_file in one process
    overlapped,      \* a step of one call was taken while the other was running
    main_pc,             \* position in main() of main.py
    started,             \* the stages main() has started, in order ("Step n: ..." lines)
    reported,            \* the success message of line 129 was printed
    slides,              \* main's slides, as the ordinals of the units
    image_paths,         \* main's image_paths, as page numbers
    content_image_paths, \* main's content_image_paths
    narrations,          \* the narrations, as the ordinals of their slides
    audio_paths,         \* what generate_all_audio returned, as slide numbers
    final_video_path,    \* what assemble_video returned
    audio_pc,            \* position in generate_all_audio
    audio_local,         \* the list audio_paths local to generate_all_audio
    synthesized          \* the slide numbers given to generate_audio_for_text

\* the state of a direct call of a text function
text_vars == <<text_pc, text_input, text_cleaned, text_recleaned, frame_title>>

\* the state of a run of main() and of a call of generate_all_audio
pipe_vars == <<main_pc, started, reported, slides, image_paths, content_image_paths,
               narrations, audio_paths, final_video_path, audio_pc, audio_local,
               synthesized>>

\* the state of two calls in one process
pair_vars == <<calls, overlapped>>

\* the state of a call of parse_latex_file
parse_vars == <<pc, file_path, read_result, sibling_pdf, latex_content, frames,
                pdf_page_count, candidates, probe_result, pdf_input, parsed_slides>>

vars == <<pc, file_path, read_result, sibling_pdf, latex_content, frames,
          pdf_page_count, candidates, probe_result, pdf_input, parsed_slides,
          text_pc, text_input, text_cleaned, text_recleaned, frame_title,
          calls, overlapped, main_pc, started, reported, slides, image_paths,
          content_image_paths, narrations, audio_paths, final_video_path,
          audio_pc, audio_local, synthesized>>

NoSource == [preamble |-> "none", body |-> <<>>]

NoCandidates == [source |-> FALSE, output |-> FALSE, probed |-> "none"]

NoProbe == [status |-> "none", pages |-> 0]

\* main() is not running and generate_all_audio is not called
PipeIdle ==
    /\ main_pc = "idle"
    /\ started = <<>>
    /\ reported = FALSE
    /\ slides = <<>>
    /\ image_paths = <<>>
    /\ content_image_paths = <<>>
    /\ narrations = <<>>
    /\ audio_paths = <<>>
    /\ final_video_path = "unset"
    /\ audio_pc = "idle"
    /\ audio_local = <<>>
    /\ synthesized = <<>>

\* the two calls
Call == {1, 2}

\* what a call finds outside itself: which candidate artifacts exist and
\* what pdfinfo answers
NoEnv == [source_exists |-> FALSE, output_exists |-> FALSE, probe |-> NoProbe]

\* the locals of a call: source is the text of the file at its path
NewCall(src, env) ==
    [pc |-> "start", source |-> src, env |-> env, latex_content |-> NoSource,
     frames |-> <<>>, pdf_page_count |-> <<>>, parsed_slides |-> <<>>]

IdleCall == [NewCall(NoSource, NoEnv) EXCEPT !.pc = "idle"]

NoPdfInput == [pdftotext_ok |-> FALSE, pdf_text |-> <<>>, pdfinfo_ok |-> FALSE]

Init ==
    /\ pc = "start"
    /\ file_path \in {"tex", "pdf"}
    /\ read_result = "none"
    /\ sibling_pdf = FALSE
    /\ latex_content = NoSource
    /\ frames = <<>>
    /\ pdf_page_count = <<>>
    /\ candidates = NoCandidates
    /\ probe_result = NoProbe
    /\ pdf_input = NoPdfInput
    /\ parsed_slides = <<>>
    /\ text_pc = "idle"
    /\ text_input = <<>>
    /\ text_cleaned = <<>>
    /\ text_recleaned = <<>>
    /\ frame_title = <<>>
    /\ calls = [c \in Call |-> IdleCall]
    /\ overlapped = FALSE
    /\ PipeIdle

\* lines 407-409: a path ending in .pdf goes to parse_pdf_file
DispatchPdf ==
    /\ pc = "start"
    /\ UNCHANGED <<text_vars, pair_vars, pipe_vars>>
    /\ file_path = "pdf"
    /\ pc' = "pdf"
    /\ UNCHANGED <<file_path, read_result, sibling_pdf, latex_content, frames,
                   pdf_page_count, candidates, probe_result, pdf_input,
                   parsed_slides>>

\* lines 413-415: the file is read
ReadSource ==
    /\ pc = "start"
    /\ UNCHANGED <<text_vars, pair_vars, pipe_vars>>
    /\ file_path = "tex"
    /\ read_result' = "ok"
    /\ \E src \in Sources : latex_content' = src
    /\ pc' = "scan"
    /\ UNCHANGED <<file_path, sibling_pdf, frames, pdf_page_count, candidates,
                   probe_result, pdf_input, parsed_slides>>

\* ReadMissing without the os.path.exists test of line 420: the PDF path is
\* handed to parse_pdf_file whether or not the file is there
ReadMissing_NoExistsCheck(pdf_exists) ==
    /\ pc = "start"
    /\ UNCHANGED <<text_vars, pair_vars, pipe_vars>>
    /\ file_path = "tex"
    /\ read_result' = "missing"
    /\ sibling_pdf' = pdf_exists
    /\ pc' = "pdf"
    /\ parsed_slides' = <<>>
    /\ UNCHANGED <<file_path, latex_content, frames, pdf_page_count, candidates,
                   probe_result, pdf_input>>

\* lines 416-423: FileNotFoundError; a PDF with the same base name is parsed
\* instead when there is one, else the empty list is returned
ReadMissing(pdf_exists) ==
    /\ pc = "start"
    /\ UNCHANGED <<text_vars, pair_vars, pipe_vars>>
    /\ file_path = "tex"
    /\ read_result' = "missing"
    /\ sibling_pdf' = pdf_exists
    /\ pc' = IF pdf_exists THEN "pdf" ELSE "done"
    /\ parsed_slides' = <<>>
    /\ UNCHANGED <<file_path, latex_content, frames, pdf_page_count, candidates,
                   probe_result, pdf_input>>

\* lines 424-426: any other exception while reading; the empty list is returned
ReadError ==
    /\ pc = "start"
    /\ UNCHANGED <<text_vars, pair_vars, pipe_vars>>
    /\ file_path = "tex"
    /\ read_result' = "error"
    /\ pc' = "done"
    /\ parsed_slides' = <<>>
    /\ UNCHANGED <<file_path, sibling_pdf, latex_content, frames, pdf_page_count,
                   candidates, probe_result, pdf_input>>

\* lines 291-402
ParsePdf ==
    /\ pc = "pdf"
    /\ UNCHANGED <<text_vars, pair_vars, pipe_vars>>
    /\ \E pdftotext_ok \in BOOLEAN, pdf_text \in PdfTexts, pdfinfo_ok \in BOOLEAN :
           /\ pdf_input' = [pdftotext_ok |-> pdftotext_ok, pdf_text |-> pdf_text,
                            pdfinfo_ok |-> pdfinfo_ok]
           /\ parsed_slides' = ParsePdfResult(pdftotext_ok, pdf_text, pdfinfo_ok)
    /\ pc' = "done"
    /\ UNCHANGED <<file_path, read_result, sibling_pdf, latex_content, frames,
                   pdf_page_count, candidates, probe_result>>

\* lines 430-476
ScanFrames ==
    /\ pc = "scan"
    /\ UNCHANGED <<text_vars, pair_vars, pipe_vars>>
    /\ frames' = FindFrames(latex_content.body)
    /\ pc' = "estimate"
    /\ UNCHANGED <<file_path, read_result, sibling_pdf, latex_content,
                   pdf_page_count, candidates, probe_result, pdf_input,
                   parsed_slides>>

\* line 484: the text of a dummy frame
DummyFrame(n) ==
    <<FT, "Slide ", ToString(n), "}", "\n", "Content for slide ", ToString(n)>>

\* lines 483-484
DummyFrames(n) == [i \in 1 .. (n - 2) |-> DummyFrame(i + 2)]

\* lines 479-486: "if not frames and pdf_page_count > 2".  With frames empty
\* the right operand is evaluated; pdf_page_count is a local that is first
\* assigned at line 503, so reading it here raises UnboundLocalError, which
\* nothing catches.
EstimateFromPageCount ==
    /\ pc = "estimate"
    /\ UNCHANGED <<text_vars, pair_vars, pipe_vars>>
    /\ IF frames # <<>>
       THEN pc' = "resolve" /\ UNCHANGED frames
       ELSE IF pdf_page_count = <<>>
            THEN pc' = "raised" /\ UNCHANGED frames
            ELSE /\ pc' = "resolve"
                 /\ frames' = IF pdf_page_count[1] > 2
                              THEN DummyFrames(pdf_page_count[1])
                              ELSE frames
    /\ UNCHANGED <<file_path, read_result, sibling_pdf, latex_content,
                   pdf_page_count, candidates, probe_result, pdf_input,
                   parsed_slides>>

\* ResolvePageCount without the estimate of lines 528-536
ResolvePageCount_NoEstimate(source_exists, output_exists, probe) ==
    /\ pc = "resolve"
    /\ UNCHANGED <<text_vars, pair_vars, pipe_vars>>
    /\ candidates' = [source |-> source_exists, output |-> output_exists,
                      probed |-> ProbedCandidate(source_exists, output_exists)]
    /\ probe_result' =
           IF ProbedCandidate(source_exists, output_exists) = "none"
           THEN NoProbe ELSE probe
    /\ pdf_page_count' = <<ProbedCount(source_exists, output_exists, probe)>>
    /\ pc' = "align"
    /\ UNCHANGED <<file_path, read_result, sibling_pdf, latex_content, frames,
                   pdf_input, parsed_slides>>

\* lines 494-536
ResolvePageCount(source_exists, output_exists, probe) ==
    /\ pc = "resolve"
    /\ UNCHANGED <<text_vars, pair_vars, pipe_vars>>
    /\ candidates' = [source |-> source_exists, output |-> output_exists,
                      probed |-> ProbedCandidate(source_exists, output_exists)]
    /\ probe_result' =
           IF ProbedCandidate(source_exists, output_exists) = "none"
           THEN NoProbe ELSE probe
    /\ pdf_page_count' = <<ResolvedCount(source_exists, output_exists, probe, frames)>>
    /\ pc' = "align"
    /\ UNCHANGED <<file_path, read_result, sibling_pdf, latex_content, frames,
                   pdf_input, parsed_slides>>

\* lines 538-612
AlignSlides ==
    /\ pc = "align"
    /\ UNCHANGED <<text_vars, pair_vars, pipe_vars>>
    /\ parsed_slides' = BuildSlides(latex_content.preamble, frames, pdf_page_count[1])
    /\ frames' = PopOutline(frames)
    /\ pc' = "done"
    /\ UNCHANGED <<file_path, read_result, sibling_pdf, latex_content,
                   pdf_page_count, candidates, probe_result, pdf_input>>

Next ==
    \/ DispatchPdf
    \/ ReadSource
    \/ \E pdf_exists \in BOOLEAN : ReadMissing(pdf_exists)
    \/ ReadError
    \/ ParsePdf
    \/ ScanFrames
    \/ EstimateFromPageCount
    \/ \E source_exists \in BOOLEAN, output_exists \in BOOLEAN, probe \in ProbeResults :
           ResolvePageCount(source_exists, output_exists, probe)
    \/ AlignSlides

Spec == Init /\ [][Next]_vars

\* lines 13-16: pdftotext never exits; subprocess.run is called without a
\* timeout and waits for the child
ExtractionNeverResponds ==
    /\ pc = "pdf"
    /\ UNCHANGED <<text_vars, pair_vars, pipe_vars>>
    /\ pc' = "waiting"
    /\ UNCHANGED <<file_path, read_result, sibling_pdf, latex_content, frames,
                   pdf_page_count, candidates, probe_result, pdf_input,
                   parsed_slides>>

\* lines 508, 516: pdfinfo never exits on the candidate that exists;
\* subprocess.run is called without a timeout and waits for the child
ProbeNeverResponds(source_exists, output_exists) ==
    /\ pc = "resolve"
    /\ UNCHANGED <<text_vars, pair_vars, pipe_vars>>
    /\ ProbedCandidate(source_exists, output_exists) # "none"
    /\ candidates' = [source |-> source_exists, output |-> output_exists,
                      probed |-> ProbedCandidate(source_exists, output_exists)]
    /\ pc' = "waiting"
    /\ UNCHANGED <<file_path, read_result, sibling_pdf, latex_content, frames,
                   pdf_page_count, probe_result, pdf_input, parsed_slides>>

\* the calls in which an external tool may also never respond
NextWithTools ==
    \/ Next
    \/ ExtractionNeverResponds
    \/ \E source_exists \in BOOLEAN, output_exists \in BOOLEAN :
           ProbeNeverResponds(source_exists, output_exists)

\* the positions in which the call has a next step of its own
Running == {"start", "pdf", "scan", "estimate", "resolve", "align"}

\* the call moves on: every step of NextWithTools changes pc, and one is
\* possible at every position of Running
Proceed ==
    /\ pc \in Running
    /\ pc' \in Running \cup {"done", "raised", "waiting"}
    /\ pc' # pc

\* the interpreter keeps executing the call: a call that can move on does
LiveSpec == Init /\ [][NextWithTools]_vars /\ WF_pc(Proceed)

\* ------------------------------------------------------------------------
\* Direct calls of the text functions
\* ------------------------------------------------------------------------

\* tokens of a text given to a text function
MaxTextLen == 3

TextTokens == {FT, "{", "}", "x", " ", "\n", "\\pause", "\\alpha", "\\beta", "_"}

Texts == SeqsUpTo(TextTokens, MaxTextLen)

\* tokens of a frame body given to extract_frame_title
MaxTitleLen == 5

TitleTokens == {FT, "{", "}", "x", " ", "Untitled Frame"}

TitleTexts == SeqsUpTo(TitleTokens, MaxTitleLen)

\* tokens of a frame body without a title marker: lines, bullets and
\* continuation annotations
MaxLineLen == 4

LineTokens == {BulletMark, ContinuationMark, "x", " ", "\n", "}"}

LineTexts == SeqsUpTo(LineTokens, MaxLineLen)

TextInit ==
    /\ pc = "idle"
    /\ file_path = "tex"
    /\ read_result = "none"
    /\ sibling_pdf = FALSE
    /\ latex_content = NoSource
    /\ frames = <<>>
    /\ pdf_page_count = <<>>
    /\ candidates = NoCandidates
    /\ probe_result = NoProbe
    /\ pdf_input = NoPdfInput
    /\ parsed_slides = <<>>
    /\ text_pc = "input"
    /\ text_input \in Texts \cup TitleTexts \cup LineTexts
    /\ text_cleaned = <<>>
    /\ text_recleaned = <<>>
    /\ frame_title = <<>>
    /\ calls = [c \in Call |-> IdleCall]
    /\ overlapped = FALSE
    /\ PipeIdle

\* cleaned = clean_latex_content(text)
CleanText ==
    /\ text_pc = "input"
    /\ text_cleaned' = clean_latex_content(text_input)
    /\ text_pc' = "cleaned"
    /\ UNCHANGED <<text_input, text_recleaned, frame_title>>
    /\ UNCHANGED <<parse_vars, pair_vars, pipe_vars>>

\* clean_latex_content(cleaned): the function applied to its own result
CleanAgain ==
    /\ text_pc = "cleaned"
    /\ text_recleaned' = clean_latex_content(text_cleaned)
    /\ text_pc' = "recleaned"
    /\ UNCHANGED <<text_input, text_cleaned, frame_title>>
    /\ UNCHANGED <<parse_vars, pair_vars, pipe_vars>>

\* title = extract_frame_title(text)
ExtractTitle ==
    /\ text_pc = "input"
    /\ frame_title' = extract_frame_title(text_input)
    /\ text_pc' = "titled"
    /\ UNCHANGED <<text_input, text_cleaned, text_recleaned>>
    /\ UNCHANGED <<parse_vars, pair_vars, pipe_vars>>

TextNext ==
    \/ CleanText
    \/ CleanAgain
    \/ ExtractTitle

TextSpec == TextInit /\ [][TextNext]_vars

\* ------------------------------------------------------------------------
\* Two calls of parse_latex_file in one process, on different sources.
\* Every name the function assigns is a local of the call (lines 404-612);
\* the module keeps no list, cache or counter of its own.
\* ------------------------------------------------------------------------

\* sources of the two calls: no frame, or one frame environment
PairSources ==
    {src \in Sources :
        /\ src.preamble = "none"
        /\ Len(src.body) <= 1
        /\ \A k \in 1 .. Len(src.body) : src.body[k].kind = "env"}

\* no artifact, or an artifact beside the source for which pdfinfo reports
\* 0 or 4 pages
PairEnvs ==
    {NoEnv}
        \cup {[source_exists |-> TRUE, output_exists |-> FALSE,
                probe |-> [status |-> "pages", pages |-> n]] : n \in {0, 4}}

PairInit ==
    /\ pc = "idle"
    /\ file_path = "tex"
    /\ read_result = "none"
    /\ sibling_pdf = FALSE
    /\ latex_content = NoSource
    /\ frames = <<>>
    /\ pdf_page_count = <<>>
    /\ candidates = NoCandidates
    /\ probe_result = NoProbe
    /\ pdf_input = NoPdfInput
    /\ parsed_slides = <<>>
    /\ text_pc = "idle"
    /\ text_input = <<>>
    /\ text_cleaned = <<>>
    /\ text_recleaned = <<>>
    /\ frame_title = <<>>
    /\ \E s1 \in PairSources, e1 \in PairEnvs, e2 \in PairEnvs :
           \E s2 \in PairSources \ {s1} :
               calls = [c \in Call |-> IF c = 1 THEN NewCall(s1, e1) ELSE NewCall(s2, e2)]
    /\ overlapped = FALSE
    /\ PipeIdle

Other(c) == CHOOSE d \in Call : d # c

\* the other call has read its source and has not ended
OtherRunning(c) == calls[Other(c)].pc \in {"scan", "estimate", "resolve", "align"}

\* lines 413-415
CallRead(c) ==
    /\ calls[c].pc = "start"
    /\ calls' = [calls EXCEPT ![c].latex_content = calls[c].source,
                              ![c].pc = "scan"]
    /\ overlapped' = (overlapped \/ OtherRunning(c))
    /\ UNCHANGED <<parse_vars, text_vars, pipe_vars>>

\* CallScan with frames bound to one list object that both calls append to
CallScan_SharedFrames(c) ==
    /\ calls[c].pc = "scan"
    /\ calls' = [d \in Call |->
                    [calls[d] EXCEPT
                        !.frames = calls[Other(c)].frames
                                       \o FindFrames(calls[c].latex_content.body),
                        !.pc = IF d = c THEN "estimate" ELSE calls[d].pc]]
    /\ overlapped' = (overlapped \/ OtherRunning(c))
    /\ UNCHANGED <<parse_vars, text_vars, pipe_vars>>

\* lines 430-476: frames = [] is a new list of this call
CallScan(c) ==
    /\ calls[c].pc = "scan"
    /\ calls' = [calls EXCEPT ![c].frames = FindFrames(calls[c].latex_content.body),
                              ![c].pc = "estimate"]
    /\ overlapped' = (overlapped \/ OtherRunning(c))
    /\ UNCHANGED <<parse_vars, text_vars, pipe_vars>>

\* line 479: with no frame the unassigned local pdf_page_count is read
CallEstimate(c) ==
    /\ calls[c].pc = "estimate"
    /\ calls' = [calls EXCEPT ![c].pc = IF calls[c].frames = <<>>
                                        THEN "raised" ELSE "resolve"]
    /\ overlapped' = (overlapped \/ OtherRunning(c))
    /\ UNCHANGED <<parse_vars, text_vars, pipe_vars>>

\* lines 494-536
CallResolve(c) ==
    /\ calls[c].pc = "resolve"
    /\ calls' = [calls EXCEPT
                    ![c].pdf_page_count =
                        <<ResolvedCount(calls[c].env.source_exists,
                                        calls[c].env.output_exists,
                                        calls[c].env.probe, calls[c].frames)>>,
                    ![c].pc = "align"]
    /\ overlapped' = (overlapped \/ OtherRunning(c))
    /\ UNCHANGED <<parse_vars, text_vars, pipe_vars>>

\* lines 538-612
CallAlign(c) ==
    /\ calls[c].pc = "align"
    /\ calls' = [calls EXCEPT
                    ![c].parsed_slides =
                        BuildSlides(calls[c].latex_content.preamble, calls[c].frames,
                                    calls[c].pdf_page_count[1]),
                    ![c].frames = PopOutline(calls[c].frames),
                    ![c].pc = "done"]
    /\ overlapped' = (overlapped \/ OtherRunning(c))
    /\ UNCHANGED <<parse_vars, text_vars, pipe_vars>>

PairNext ==
    \E c \in Call :
        \/ CallRead(c)
        \/ CallScan(c)
        \/ CallEstimate(c)
        \/ CallResolve(c)
        \/ CallAlign(c)

PairSpec == PairInit /\ [][PairNext]_vars

\* ------------------------------------------------------------------------
\* main() of main.py and generate_all_audio of audio_generator.py
\*
\* A list is modelled by the numbers of its entries: slides <<1, 2, 3>> are
\* the units 1..3, audio_paths <<1, 2>> are audio_1.mp3 and audio_2.mp3.
\* ------------------------------------------------------------------------

\* slides a parse gives, pages the renderer gives, narrations of a direct
\* call of generate_all_audio
MaxUnits == 4

\* <<1, ..., n>>
FirstN(n) == [k \in 1 .. n |-> k]

\* either main() starts, or generate_all_audio is called on its own
PipeInit ==
    /\ pc = "idle"
    /\ file_path = "tex"
    /\ read_result = "none"
    /\ sibling_pdf = FALSE
    /\ latex_content = NoSource
    /\ frames = <<>>
    /\ pdf_page_count = <<>>
    /\ candidates = NoCandidates
    /\ probe_result = NoProbe
    /\ pdf_input = NoPdfInput
    /\ parsed_slides = <<>>
    /\ text_pc = "idle"
    /\ text_input = <<>>
    /\ text_cleaned = <<>>
    /\ text_recleaned = <<>>
    /\ frame_title = <<>>
    /\ calls = [c \in Call |-> IdleCall]
    /\ overlapped = FALSE
    /\ started = <<>>
    /\ reported = FALSE
    /\ slides = <<>>
    /\ image_paths = <<>>
    /\ content_image_paths = <<>>
    /\ audio_paths = <<>>
    /\ final_video_path = "unset"
    /\ audio_local = <<>>
    /\ synthesized = <<>>
    /\ \/ main_pc = "config" /\ audio_pc = "idle" /\ narrations = <<>>
       \/ /\ main_pc = "idle"
          /\ audio_pc = "init"
          /\ \E n \in 0 .. MaxUnits : narrations = FirstN(n)

\* main.py lines 39-42
LoadConfig(config_ok) ==
    /\ main_pc = "config"
    /\ main_pc' = IF config_ok THEN "parse" ELSE "exit"
    /\ UNCHANGED <<started, reported, slides, image_paths, content_image_paths,
                   narrations, audio_paths, final_video_path, audio_pc,
                   audio_local, synthesized>>
    /\ UNCHANGED <<parse_vars, text_vars, pair_vars>>

\* main.py lines 59-64: parse_latex_file returns n units, or raises (the
\* exception is not caught in main)
ParseStage(n, raises) ==
    /\ main_pc = "parse"
    /\ started' = Append(started, "parse")
    /\ slides' = IF raises THEN slides ELSE FirstN(n)
    /\ main_pc' = IF raises THEN "crashed" ELSE IF n = 0 THEN "exit" ELSE "images"
    /\ UNCHANGED <<reported, image_paths, content_image_paths, narrations,
                   audio_paths, final_video_path, audio_pc, audio_local,
                   synthesized>>
    /\ UNCHANGED <<parse_vars, text_vars, pair_vars>>

\* ImageStage without the test of line 71
ImageStage_NoEmptyCheck(m) ==
    /\ main_pc = "images"
    /\ started' = Append(started, "images")
    /\ image_paths' = FirstN(m)
    /\ main_pc' = "match"
    /\ UNCHANGED <<reported, slides, content_image_paths, narrations, audio_paths,
                   final_video_path, audio_pc, audio_local, synthesized>>
    /\ UNCHANGED <<parse_vars, text_vars, pair_vars>>

\* main.py lines 67-73: generate_slide_images returns m image paths
ImageStage(m) ==
    /\ main_pc = "images"
    /\ started' = Append(started, "images")
    /\ image_paths' = FirstN(m)
    /\ main_pc' = IF m = 0 THEN "exit" ELSE "match"
    /\ UNCHANGED <<reported, slides, content_image_paths, narrations, audio_paths,
                   final_video_path, audio_pc, audio_local, synthesized>>
    /\ UNCHANGED <<parse_vars, text_vars, pair_vars>>

\* MatchImages with all the images kept
MatchImages_KeepAllImages ==
    /\ main_pc = "match"
    /\ content_image_paths' = image_paths
    /\ slides' = IF Len(slides) > Len(image_paths)
                 THEN SubSeq(slides, 1, Len(image_paths))
                 ELSE slides
    /\ main_pc' = "narrate"
    /\ UNCHANGED <<started, reported, image_paths, narrations, audio_paths,
                   final_video_path, audio_pc, audio_local, synthesized>>
    /\ UNCHANGED <<parse_vars, text_vars, pair_vars>>

\* main.py lines 80-100: the longer of image_paths and slides is cut
MatchImages ==
    /\ main_pc = "match"
    /\ content_image_paths' = IF Len(image_paths) > Len(slides)
                              THEN SubSeq(image_paths, 1, Len(slides))
                              ELSE image_paths
    /\ slides' = IF Len(slides) > Len(image_paths)
                 THEN SubSeq(slides, 1, Len(image_paths))
                 ELSE slides
    /\ main_pc' = "narrate"
    /\ UNCHANGED <<started, reported, image_paths, narrations, audio_paths,
                   final_video_path, audio_pc, audio_local, synthesized>>
    /\ UNCHANGED <<parse_vars, text_vars, pair_vars>>

\* narration_generator.py lines 135-143: one narration per slide
generate_all_narrations(ss) == ss

\* main.py lines 104-113: the narrations are made and checked, then
\* generate_all_audio is called
NarrationStage ==
    /\ main_pc = "narrate"
    /\ narrations' = generate_all_narrations(slides)
    /\ IF narrations' = <<>> \/ Len(narrations') # Len(slides)
       THEN /\ started' = Append(started, "narration")
            /\ main_pc' = "exit"
            /\ UNCHANGED audio_pc
       ELSE /\ started' = started \o <<"narration", "audio">>
            /\ main_pc' = "audio"
            /\ audio_pc' = "init"
    /\ UNCHANGED <<reported, slides, image_paths, content_image_paths, audio_paths,
                   final_video_path, audio_local, synthesized>>
    /\ UNCHANGED <<parse_vars, text_vars, pair_vars>>

\* audio_generator.py lines 73-77: the client is initialized, or [] is returned
InitClient(client_ok) ==
    /\ audio_pc = "init"
    /\ audio_local' = <<>>
    /\ IF client_ok
       THEN audio_pc' = "loop" /\ UNCHANGED audio_paths
       ELSE audio_pc' = "returned" /\ audio_paths' = <<>>
    /\ UNCHANGED <<main_pc, started, reported, slides, image_paths,
                   content_image_paths, narrations, final_video_path, synthesized>>
    /\ UNCHANGED <<parse_vars, text_vars, pair_vars>>

\* SynthesizeNext that returns the paths made so far when a narration fails
SynthesizeNext_ReturnPartial(success) ==
    /\ audio_pc = "loop"
    /\ Len(audio_local) < Len(narrations)
    /\ synthesized' = Append(synthesized, Len(audio_local) + 1)
    /\ IF success
       THEN /\ audio_local' = Append(audio_local, Len(audio_local) + 1)
            /\ UNCHANGED <<audio_pc, audio_paths>>
       ELSE /\ audio_pc' = "returned"
            /\ audio_paths' = audio_local
            /\ UNCHANGED audio_local
    /\ UNCHANGED <<main_pc, started, reported, slides, image_paths,
                   content_image_paths, narrations, final_video_path>>
    /\ UNCHANGED <<parse_vars, text_vars, pair_vars>>

\* audio_generator.py lines 78-94: one turn of the loop; slide_num is
\* len(audio_paths) + 1 because every earlier turn appended a path
SynthesizeNext(success) ==
    /\ audio_pc = "loop"
    /\ Len(audio_local) < Len(narrations)
    /\ synthesized' = Append(synthesized, Len(audio_local) + 1)
    /\ IF success
       THEN /\ audio_local' = Append(audio_local, Len(audio_local) + 1)
            /\ UNCHANGED <<audio_pc, audio_paths>>
       ELSE /\ audio_pc' = "returned"
            /\ audio_paths' = <<>>
            /\ UNCHANGED audio_local
    /\ UNCHANGED <<main_pc, started, reported, slides, image_paths,
                   content_image_paths, narrations, final_video_path>>
    /\ UNCHANGED <<parse_vars, text_vars, pair_vars>>

\* audio_generator.py lines 96-97: the loop is over
ReturnAudio ==
    /\ audio_pc = "loop"
    /\ Len(audio_local) = Len(narrations)
    /\ audio_paths' = audio_local
    /\ audio_pc' = "returned"
    /\ UNCHANGED <<main_pc, started, reported, slides, image_paths,
                   content_image_paths, narrations, final_video_path, audio_local,
                   synthesized>>
    /\ UNCHANGED <<parse_vars, text_vars, pair_vars>>

\* main.py lines 114-125: the audio files are checked, then assemble_video
\* is called and gives a path or nothing
AudioCheckAndVideo(video_ok) ==
    /\ main_pc = "audio"
    /\ audio_pc = "returned"
    /\ IF audio_paths = <<>> \/ Len(audio_paths) # Len(narrations)
       THEN /\ main_pc' = "exit"
            /\ UNCHANGED <<started, final_video_path>>
       ELSE /\ started' = Append(started, "video")
            /\ final_video_path' = IF video_ok THEN "video" ELSE "none"
            /\ main_pc' = IF video_ok THEN "report" ELSE "exit"
    /\ UNCHANGED <<reported, slides, image_paths, content_image_paths, narrations,
                   audio_paths, audio_pc, audio_local, synthesized>>
    /\ UNCHANGED <<parse_vars, text_vars, pair_vars>>

\* main.py lines 127-129
ReportSuccess ==
    /\ main_pc = "report"
    /\ reported' = TRUE
    /\ main_pc' = "exit"
    /\ UNCHANGED <<started, slides, image_paths, content_image_paths, narrations,
                   audio_paths, final_video_path, audio_pc, audio_local,
                   synthesized>>
    /\ UNCHANGED <<parse_vars, text_vars, pair_vars>>

PipeNext ==
    \/ \E config_ok \in BOOLEAN : LoadConfig(config_ok)
    \/ \E n \in 0 .. MaxUnits, raises \in BOOLEAN : ParseStage(n, raises)
    \/ \E m \in 0 .. MaxUnits : ImageStage(m)
    \/ MatchImages
    \/ NarrationStage
    \/ \E client_ok \in BOOLEAN : InitClient(client_ok)
    \/ \E success \in BOOLEAN : SynthesizeNext(success)
    \/ ReturnAudio
    \/ \E video_ok \in BOOLEAN : AudioCheckAndVideo(video_ok)
    \/ ReportSuccess

PipeSpec == PipeInit /\ [][PipeNext]_vars

\* ------------------------------------------------------------------------
\* Properties
\* ------------------------------------------------------------------------

\* parse_latex_file returned from the LaTeX branch (line 612)
StructuredDone == pc = "done" /\ read_result = "ok"

\* the call ended, by return or by an exception
Ended == pc \in {"done", "raised"}

\* the spans the scan of the source text found
ScannedSpans == FindFrames(latex_content.body)

\* the spans left for the content slots: the outline span and the
\* title-page spans taken out
RECURSIVE DropTitlePages(_)
DropTitlePages(fs) ==
    IF fs = <<>> THEN <<>>
    ELSE (IF IsTitlePageFrame(Head(fs)) THEN <<>> ELSE <<Head(fs)>>)
         \o DropTitlePages(Tail(fs))

ContentSpans == DropTitlePages(PopOutline(ScannedSpans))

\* a unit carries the continuation flag
IsContinuation(unit) == "is_continuation" \in DOMAIN unit /\ unit["is_continuation"]

\* C1: a structured source with resolved page count N yields exactly N
\* slide units.
C1_ExactlyN ==
    StructuredDone => Len(parsed_slides) = pdf_page_count[1]

\* C2: in the list returned for a structured source the i-th unit has
\* ordinal i (1-based): ordinals start at 1 and have no gaps.
C2_OrdinalsContiguous ==
    StructuredDone =>
        \A i \in 1 .. Len(parsed_slides) : parsed_slides[i].frame_number = i

\* C3: every returned unit, on either path, has content that is non-empty
\* after trimming.
C3_ContentNonEmpty ==
    pc = "done" =>
        \A i \in 1 .. Len(parsed_slides) : Strip(parsed_slides[i].content) # <<>>

\* C4: every returned unit has a non-empty title, and unit 1 carries the
\* Title value.
C4_TitleNonEmpty ==
    pc = "done" =>
        /\ \A i \in 1 .. Len(parsed_slides) : Strip(parsed_slides[i].title) # <<>>
        /\ parsed_slides # <<>> => parsed_slides[1].title = TitlePage

\* C5: once the source has been read, parse_latex_file never raises.
C5_NeverRaises ==
    read_result = "ok" => pc # "raised"

C7_ZeroSpans ==
    (Ended /\ read_result = "ok" /\ ScannedSpans = <<>>) =>
        /\ pc = "done"
        /\ Len(parsed_slides) = pdf_page_count[1]
        /\ parsed_slides[1].title = TitlePage
        /\ parsed_slides[2].title = OutlineTitle

\* C8: with fewer content spans than remaining slots every slot 3..N is
\* filled, the slots a span owns beyond its first being flagged as
\* continuations that repeat the owning span's title.
C8_Continuation ==
    (StructuredDone /\ ContentSpans # <<>>
                    /\ Len(ContentSpans) < pdf_page_count[1] - 2) =>
        /\ Len(parsed_slides) = pdf_page_count[1]
        /\ Cardinality({k \in 3 .. Len(parsed_slides) :
                            IsContinuation(parsed_slides[k])})
               = pdf_page_count[1] - 2 - Len(ContentSpans)
        /\ \A k \in 4 .. Len(parsed_slides) :
               IsContinuation(parsed_slides[k]) =>
                   parsed_slides[k].title = parsed_slides[k - 1].title

\* C9: with at least as many content spans as remaining slots, units 3..N
\* are the first N - 2 content spans, one span per unit, none flagged.
C9_Truncation ==
    (StructuredDone /\ pdf_page_count[1] >= 2
                    /\ Len(ContentSpans) >= pdf_page_count[1] - 2) =>
        /\ Len(parsed_slides) = pdf_page_count[1]
        /\ \A k \in 3 .. Len(parsed_slides) :
               /\ parsed_slides[k] = ContentSlide(k, ContentSpans[k - 2])
               /\ ~IsContinuation(parsed_slides[k])

C11_NoAdjacentDuplicateTitle ==
    StructuredDone =>
        \A k \in 2 .. Len(parsed_slides) :
            (~IsContinuation(parsed_slides[k]) /\ ~IsContinuation(parsed_slides[k - 1]))
                => parsed_slides[k].title # parsed_slides[k - 1].title

\* C12: clean_latex_content is idempotent: cleaning a cleaned text gives the
\* same text.
C12_CleanIdempotent ==
    text_pc = "recleaned" => text_recleaned = text_cleaned

\* the first title marker of a text and the scan for its matching brace
MarkerStart(s) == FindFrom(s, {FT}, 1)

MarkerScan(s) == BraceScan(s, MarkerStart(s) + 1, 1)

MarkerBalanced(s) == MarkerStart(s) # 0 /\ MarkerScan(s)[2] = 0

MarkerText(s) == Strip(Slice(s, MarkerStart(s) + 1, MarkerScan(s)[1] - 2))

\* C13: for a text that holds a title marker whose braces balance,
\* extract_frame_title returns exactly the trimmed text between the marker's
\* opening brace and its matching closing brace, nested groups included.
C13_BalancedTitleExact ==
    (text_pc = "titled" /\ MarkerBalanced(text_input))
        => frame_title = MarkerText(text_input)

\* pages of the artifact whose extracted text is pdf_text: pdftotext ends a
\* page with a form feed, so a text that ends with one has an empty last part
ArtifactPages(pdf_text) ==
    IF Len(pdf_text) > 1 /\ pdf_text[Len(pdf_text)] = <<>>
    THEN Len(pdf_text) - 1
    ELSE Len(pdf_text)

\* C14: when parse_pdf_file gets a text that is not empty and the page count
\* of an artifact, it returns as many units as the artifact has pages.
C14_PdfUnitsEqualPages ==
    (/\ pc = "done"
     /\ pdf_input.pdftotext_ok
     /\ pdf_input.pdfinfo_ok
     /\ pdf_input.pdf_text # <<<<>>>>)
        => Len(parsed_slides) = ArtifactPages(pdf_input.pdf_text)

\* C15: the page-count resolution never raises and leaves an integer >= 1
\* in pdf_page_count, whatever candidates exist and whatever the probe gives.
C15_ResolvedAtLeastOne ==
    [][pc = "resolve" =>
          /\ pc' = "align"
          /\ pdf_page_count' # <<>>
          /\ pdf_page_count'[1] \in Nat
          /\ pdf_page_count'[1] >= 1]_vars

\* the probe ran on an existing candidate and reported 0 pages or no count
C15_Witness ==
    /\ pc = "align"
    /\ candidates # NoCandidates
    /\ candidates.source \/ candidates.output
    /\ \/ probe_result.status = "noparse"
       \/ probe_result.status = "pages" /\ probe_result.pages = 0
    /\ pdf_page_count = <<Len(frames) + 2>>

\* C16: every call of the parse entry point eventually ends, also when an
\* external tool never responds.
C16_EventuallyReturns ==
    <>(pc \in {"done", "raised"})

\* what parse_latex_file returns for a source and its surroundings when it
\* runs alone
SoloFrames(src) == FindFrames(src.body)

SoloSlides(src, env) ==
    BuildSlides(src.preamble, SoloFrames(src),
                ResolvedCount(env.source_exists, env.output_exists, env.probe,
                              SoloFrames(src)))

\* C17: two calls on different sources, interleaved in any order, share no
\* mutable state: each ends as it would alone (the same slide list, or the
\* same exception), and a returned list is not changed by the other call.
C17_NoSharedState ==
    /\ [](\A c \in Call :
            /\ calls[c].pc = "done" =>
                   /\ SoloFrames(calls[c].source) # <<>>
                   /\ calls[c].parsed_slides = SoloSlides(calls[c].source, calls[c].env)
            /\ calls[c].pc = "raised" => SoloFrames(calls[c].source) = <<>>)
    /\ [][\A c \in Call :
            calls[c].pc = "done" => calls'[c].parsed_slides = calls[c].parsed_slides]_vars

\* both calls returned slides and their steps were interleaved
C17_Witness ==
    /\ overlapped
    /\ \A c \in Call : calls[c].pc = "done" /\ calls[c].parsed_slides # <<>>
    /\ calls[1].parsed_slides # calls[2].parsed_slides

\* the span list is the one handed to alignment
SpansHandedOver == pc = "align" /\ read_result = "ok"

\* C18: every section marker of the source yields a span whose body is the
\* declared label.
C18_SectionSpans ==
    SpansHandedOver =>
        \A k \in 1 .. Len(latex_content.body) :
            latex_content.body[k].kind = "section"
                => \E j \in 1 .. Len(frames) : frames[j] = latex_content.body[k].text

\* C19: the span list handed to alignment holds at most one span per frame
\* of the source.
C19_OneSpanPerFrame ==
    SpansHandedOver =>
        \A i, j \in 1 .. Len(frames) :
            i # j => FrameOrigins(latex_content.body)[i] # FrameOrigins(latex_content.body)[j]

\* C20: the span list handed to alignment is in the order of the source: a
\* span of an earlier frame never comes after a span of a later frame.
C20_SpansInSourceOrder ==
    SpansHandedOver =>
        \A i, j \in 1 .. Len(frames) :
            i < j => FrameOrigins(latex_content.body)[i] <= FrameOrigins(latex_content.body)[j]

\* C21: the \frame{...} strategy captures the whole body of every such
\* command of the source, whatever the depth of the braces nested in it.
C21_LegacyBodyCaptured ==
    SpansHandedOver =>
        \A k \in 1 .. Len(latex_content.body) :
            latex_content.body[k].kind = "cmd"
                => \E j \in 1 .. Len(frames) : frames[j] = latex_content.body[k].text

\* a span holds an outline keyword in some letter case
AnyCaseOutline(span) ==
    \E k \in 1 .. Len(span) : Lower(span[k]) \in {Lower(t) : t \in OutlineMarks}

\* index of the first span that holds an outline keyword in some letter
\* case, 0 when there is none
RECURSIVE AnyCaseOutlineIndex(_, _)
AnyCaseOutlineIndex(fs, i) ==
    IF i > Len(fs) THEN 0
    ELSE IF AnyCaseOutline(fs[i]) THEN i
    ELSE AnyCaseOutlineIndex(fs, i + 1)

\* C22: the first scanned span that holds an outline keyword, in any letter
\* case, is the source of unit 2; without such a span unit 2 is the generic
\* Outline unit.
C22_OutlineAnyCase ==
    StructuredDone =>
        LET k == AnyCaseOutlineIndex(ScannedSpans, 1)
        IN  /\ parsed_slides[2].title = OutlineTitle
            /\ k = 0 => parsed_slides[2].content = DefaultOutline
            /\ (k # 0 /\ Strip(clean_latex_content(ScannedSpans[k])) # <<>>)
                   => parsed_slides[2].content = clean_latex_content(ScannedSpans[k])

NormalizedLines == SplitLines(clean_latex_content(text_input))

\* the lines that are not empty, not a bullet item and not a continuation
\* annotation
TitleCandidates ==
    {k \in 1 .. Len(NormalizedLines) :
        /\ Strip(NormalizedLines[k]) # <<>>
        /\ Head(Strip(NormalizedLines[k])) \notin {BulletMark, ContinuationMark}}

FirstCandidate == CHOOSE k \in TitleCandidates : \A j \in TitleCandidates : k <= j

\* C24: for a text without a title marker extract_frame_title returns the
\* first line of the normalized content that is not empty, not a bullet item
\* and not a continuation annotation, and "Untitled Frame" when there is none.
C24_FirstLineTitle ==
    (text_pc = "titled" /\ ~Contains(text_input, FT)) =>
        IF TitleCandidates = {}
        THEN frame_title = UntitledFrame
        ELSE frame_title = Strip(NormalizedLines[FirstCandidate])

\* the title is a line that comes after a bullet item or a continuation
\* annotation
C24_Witness ==
    /\ text_pc = "titled"
    /\ ~Contains(text_input, FT)
    /\ TitleCandidates # {}
    /\ FirstCandidate > 1
    /\ frame_title = Strip(NormalizedLines[FirstCandidate])

\* how many tokens of s are whitelisted math commands
RECURSIVE CountMath(_)
CountMath(s) ==
    IF s = <<>> THEN 0
    ELSE (IF Head(s) \in MathCommands THEN 1 ELSE 0) + CountMath(Tail(s))

\* the text holds no command outside the whitelist and no title marker, and
\* no whitelisted name runs on into a letter (which would be another command)
OnlyMathCommands(s) ==
    \A k \in 1 .. Len(s) :
        /\ s[k] \notin NonMathCommands \cup {FT}
        /\ (s[k] \in MathCommands /\ k < Len(s)) => s[k + 1] \notin Letters

\* C25: every occurrence of a whitelisted math command that is not inside
\* the arguments of a stripped command is still in the normalized text,
\* whatever character follows it.
C25_MathCommandsKept ==
    (text_pc = "cleaned" /\ OnlyMathCommands(text_input))
        => CountMath(text_cleaned) = CountMath(text_input)

\* parse_pdf_file got the text and the page count of an artifact
PdfParsed ==
    /\ pc = "done"
    /\ pdf_input.pdftotext_ok
    /\ pdf_input.pdfinfo_ok
    /\ pdf_input.pdf_text # <<<<>>>>

\* C26: in the list parse_pdf_file returns the i-th unit has ordinal i: the
\* ordinals are unique and contiguous from 1.
C26_PdfOrdinalsContiguous ==
    PdfParsed =>
        \A i \in 1 .. Len(parsed_slides) : parsed_slides[i].frame_number = i

\* C27: a scanned frame that holds \titlepage is the source of no unit after
\* unit 1: no later unit has the cleaned text of such a frame as its content.
C27_TitlePageNotEmitted ==
    StructuredDone =>
        \A j \in 1 .. Len(ScannedSpans) :
            (/\ IsTitlePageFrame(ScannedSpans[j])
             /\ Strip(clean_latex_content(ScannedSpans[j])) # <<>>)
                => \A i \in 2 .. Len(parsed_slides) :
                       parsed_slides[i].content # clean_latex_content(ScannedSpans[j])

\* main() has reached the video assembly
VideoStarted == \E k \in 1 .. Len(started) : started[k] = "video"

\* C28: when main() reaches the video assembly, the images passed to it, the
\* slides that were narrated, the narrations and the audio files are equal
\* in number.
C28_CountsEqualAtAssembly ==
    VideoStarted =>
        /\ Len(content_image_paths) = Len(slides)
        /\ Len(narrations) = Len(slides)
        /\ Len(audio_paths) = Len(narrations)

\* the renderer gave more images than there were slides, and the assembly
\* was reached with the images cut to the number of slides
C28_Witness ==
    /\ VideoStarted
    /\ Len(image_paths) > Len(slides)
    /\ Len(content_image_paths) = Len(slides)

\* a call of generate_audio_for_text failed
SynthesisFailed == Len(synthesized) > Len(audio_local)

\* C29: generate_all_audio returns the empty list or one path per narration
\* in the order of the narrations; after a narration failed no other
\* narration is synthesized and the paths made before are not returned.
C29_AllOrNothing ==
    /\ Len(synthesized) <= Len(audio_local) + 1
    /\ audio_pc = "returned" =>
           IF SynthesisFailed
           THEN audio_paths = <<>>
           ELSE audio_paths \in {<<>>, FirstN(Len(narrations))}

\* a narration failed after at least one audio file had been made
C29_Witness ==
    /\ audio_pc = "returned"
    /\ SynthesisFailed
    /\ audio_local # <<>>
    /\ Len(synthesized) < Len(narrations)
    /\ audio_paths = <<>>

\* the stages of main() in their order
StageOrder == <<"parse", "images", "narration", "audio", "video">>

StagesInOrder ==
    /\ Len(started) <= Len(StageOrder)
    /\ \A k \in 1 .. Len(started) : started[k] = StageOrder[k]

\* what each stage that has run gave
ParseFailed == Len(started) >= 1 /\ (main_pc = "crashed" \/ slides = <<>>)

ImagesEmpty == Len(started) >= 2 /\ image_paths = <<>>

ImagesMismatched == Len(started) >= 2 /\ Len(image_paths) # Len(slides)

NarrationFailed ==
    Len(started) >= 3 /\ (narrations = <<>> \/ Len(narrations) # Len(slides))

AudioFailed ==
    /\ Len(started) >= 4
    /\ audio_pc = "returned"
    /\ (audio_paths = <<>> \/ Len(audio_paths) # Len(narrations))

VideoFailed == Len(started) >= 5 /\ final_video_path = "none"

\* after a failure of the k-th stage no later stage is started and no
\* success is reported
StopsAt(k) == Len(started) = k /\ ~reported

\* C30: main() runs its stages in the order parse, images, narration, audio,
\* video, and once a stage gives an empty or mismatched result no later
\* stage is started and no success message is printed.
C30_StopOnEmptyOrMismatch ==
    /\ StagesInOrder
    /\ ParseFailed => StopsAt(1)
    /\ (ImagesEmpty \/ ImagesMismatched) => StopsAt(2)
    /\ NarrationFailed => StopsAt(3)
    /\ AudioFailed => StopsAt(4)
    /\ VideoFailed => StopsAt(5)

\* C30 as amended: the same, except that a number of images different from
\* the number of slides does not stop main().
C30_StopOnFailure ==
    /\ StagesInOrder
    /\ ParseFailed => StopsAt(1)
    /\ ImagesEmpty => StopsAt(2)
    /\ NarrationFailed => StopsAt(3)
    /\ AudioFailed => StopsAt(4)
    /\ VideoFailed => StopsAt(5)

\* the images did not match the slides and main() went on; the audio stage
\* then failed and main() stopped there
C30_Witness ==
    /\ main_pc = "exit"
    /\ ImagesMismatched
    /\ AudioFailed
    /\ StopsAt(4)

=============================================================================
